---- MODULE Spec2Model ----
(***************************************************************************)
(* A model of diffsync-mock: the LocalAdapter and the Redis-backed adapter *)
(* (RedisEmployee / RedisAdapter), the data builders of build.py, the      *)
(* main diff sequence of main.py and the run task of tasks.py.             *)
(*                                                                         *)
(* Strings are TLC strings; the f-string f"{username}{index}" is string    *)
(* concatenation with the decimal rendering of the index.  A value that    *)
(* went through the Redis client is a byte string, modelled as the pair    *)
(* <<"b", s>>; the pydantic str fields of Employee decode it again.        *)
(***************************************************************************)
EXTENDS Naturals, Sequences, FiniteSets, TLC

VARIABLES
    pc,        \* position of the running program
    argv,      \* command-line flags handed to main.py
    localFile, \* contents of local_adapter.json (a sequence of dicts)
    faker,     \* the records generate_data() returns in this run
    redisDb,   \* the Redis server: key (bytes) -> hash (bytes -> bytes)
    redisLog,  \* the Redis commands the program has issued
    hooks,     \* the CRUD hooks of RedisEmployee that have been invoked
    local,     \* index of the adapter named local: uid -> Employee
    remote,    \* index of the adapter named remote: uid -> Employee
    delta,     \* the Delta computed by diff_from
    outcome,   \* per-entry outcome of the sync pass: uid -> outcome
    phases,    \* the phases main has completed
    call       \* the last adapter call: operation, input, result, prior state

vars == <<pc, argv, localFile, faker, redisDb, redisLog, hooks, local, remote,
          delta, outcome, phases, call>>

----------------------------------------------------------------------------
(* Bounds of the model. *)

\* Longest source list of the short input family.
MaxRecords == 2
\* Length of the long input family: the first length at which a two-digit
\* position index exists (positions 0..10).
LongLen == 11

----------------------------------------------------------------------------
(* models.py: Employee *)

Identifiers == <<"username">>
Attributes == <<"company", "job", "ssn", "residence", "name", "mail">>

Range(s) == {s[i] : i \in 1..Len(s)}
Fields == Range(Identifiers) \cup Range(Attributes)

EmptyMap == [k \in {} |-> k]

\* Byte strings, as the Redis client returns them.
Encode(s) == <<"b", s>>
Decode(b) == b[2]

\* Employee(**kwargs) with str values: the validated model instance.
Employee(kwargs) == [f \in Fields |-> kwargs[f]]

\* DiffSyncModel.get_unique_id(): the identifier values joined by "__".
UniqueId(obj) == obj[Identifiers[1]]

\* DiffSyncModel.get_attrs()
Attrs(obj) == [a \in Range(Attributes) |-> obj[a]]

----------------------------------------------------------------------------
(* local_adapter.py: LocalAdapter *)

\* The order in which load() subscripts the source dict.
LoadFieldOrder == <<"name", "company", "job", "ssn", "residence", "username", "mail">>

\* username=f"{employee['username']}{index}"
LoadKey(username, index) == username \o ToString(index)

\* The keyword arguments load() builds for one source record.
LoadKwargs(employee, index) ==
    [f \in Fields |-> IF f = "username" THEN LoadKey(employee[f], index)
                      ELSE employee[f]]

\* DiffSync.add of the in-memory adapter: ObjectAlreadyExists on a known uid.
StoreAdd(index, obj) ==
    IF UniqueId(obj) \in DOMAIN index
    THEN [index |-> index, exc |-> "ObjectAlreadyExists"]
    ELSE [index |-> index @@ (UniqueId(obj) :> obj), exc |-> "none"]

\* LocalAdapter.load(employees), from position i (1-based; enumerate's index
\* is i - 1).  A record is added as soon as it is read; an exception leaves
\* the loop with the records added so far in the index.
RECURSIVE LoadFrom(_, _, _)
LoadFrom(index, employees, i) ==
    IF i > Len(employees) THEN [index |-> index, exc |-> "none"]
    ELSE IF \E k \in 1..Len(LoadFieldOrder) : LoadFieldOrder[k] \notin DOMAIN employees[i]
    THEN [index |-> index, exc |-> "KeyError"]
    ELSE LET added == StoreAdd(index, Employee(LoadKwargs(employees[i], i - 1)))
         IN  IF added.exc # "none" THEN added
             ELSE LoadFrom(added.index, employees, i + 1)

Load(index, employees) == LoadFrom(index, employees, 1)

----------------------------------------------------------------------------
(* build.py *)

\* redis.hset(name, None, None, mapping): every field and value is stored as
\* bytes in the hash under the key; an existing hash keeps its other fields.
\* A key of the server holds a typed value; HSET makes it a hash.
RedisHset(db, name, mapping) ==
    LET key == Encode(name)
        old == IF key \in DOMAIN db THEN db[key].hash ELSE EmptyMap
        new == [f \in {Encode(k) : k \in DOMAIN mapping} |-> Encode(mapping[Decode(f)])]
    IN  [k \in DOMAIN db \cup {key} |->
            IF k = key THEN [type |-> "hash", hash |-> new @@ old] ELSE db[k]]

\* item["username"] = f"{item['username']}{index}"
PopulateKey(username, index) == username \o ToString(index)

\* populate_redis(): flushall, then one hset per generated record, keyed by
\* the rewritten username.
RECURSIVE PopulateFrom(_, _, _)
PopulateFrom(db, data, i) ==
    IF i > Len(data) THEN db
    ELSE LET key == PopulateKey(data[i]["username"], i - 1)
             item == [data[i] EXCEPT !["username"] = key]
         IN  PopulateFrom(RedisHset(db, key, item), data, i + 1)

PopulateRedisDb(data) == PopulateFrom(EmptyMap, data, 1)

----------------------------------------------------------------------------
(* redis_adapter.py: the Redis client calls it makes *)

\* redis.keys('*'): every key of the server.
RedisKeys(db) == DOMAIN db

\* redis.hgetall(key): the hash under the key, empty for a missing key.
RedisHgetall(db, key) == IF key \in DOMAIN db THEN db[key].hash ELSE EmptyMap

\* redis.delete(name): removes the key; a missing key is not an error.
RedisDelete(db, name) == [k \in DOMAIN db \ {Encode(name)} |-> db[k]]

\* The value MGET yields for a key that is missing or holds no string.
Nil == <<"nil">>

\* redis.mget(keys): the string value of each key, nil for every other key.
RedisMget(db, keys) ==
    [i \in 1..Len(keys) |->
        IF Encode(keys[i]) \in DOMAIN db /\ db[Encode(keys[i])].type = "string"
        THEN db[Encode(keys[i])].value ELSE Nil]

\* The parameters of the client's set(name, value, ...).
RedisSetParams == {"name", "value", "ex", "px", "nx", "xx", "keepttl", "get", "exat", "pxat"}

\* redis.set(**kwargs): a keyword the method does not declare, or a missing
\* name or value, is a TypeError raised before any command is sent.
RedisSet(db, kwargs) ==
    IF ~(DOMAIN kwargs \subseteq RedisSetParams) \/ ~({"name", "value"} \subseteq DOMAIN kwargs)
    THEN [db |-> db, exc |-> "TypeError"]
    ELSE [db |-> [k \in DOMAIN db \cup {Encode(kwargs["name"])} |->
                    IF k = Encode(kwargs["name"])
                    THEN [type |-> "string", value |-> Encode(kwargs["value"])]
                    ELSE db[k]],
          exc |-> "none"]

----------------------------------------------------------------------------
(* redis_adapter.py: RedisEmployee *)

\* RedisEmployee.convert_from(diffsync, obj): subscripts the seven byte keys;
\* the str fields of the model decode the byte values they are given.
ConvertOk(obj) == \A f \in Fields : Encode(f) \in DOMAIN obj
ConvertFrom(obj) == Employee([f \in Fields |-> Decode(obj[Encode(f)])])

\* The uid -> instance view of a list of instances.
IndexOf(objs) == [u \in {UniqueId(o) : o \in objs} |-> CHOOSE o \in objs : UniqueId(o) = u]

\* RedisEmployee.get_all(diffsync): KEYS, then HGETALL and convert_from per key.
RedisGetAll(db) ==
    IF \E k \in RedisKeys(db) : ~ConvertOk(RedisHgetall(db, k))
    THEN [index |-> EmptyMap, exc |-> "KeyError"]
    ELSE [index |-> IndexOf({ConvertFrom(RedisHgetall(db, k)) : k \in RedisKeys(db)}),
          exc |-> "none"]
GetAllCommands(db) == {"KEYS"} \cup (IF RedisKeys(db) = {} THEN {} ELSE {"HGETALL"})

\* RedisEmployee.get_by_uids(diffsync, uids): MGET, then HGETALL on each value
\* MGET returned.  MGET of no keys is refused by the server; HGETALL of nil is
\* refused by the client.
RECURSIVE GetByUidsFrom(_, _, _, _)
GetByUidsFrom(db, values, i, results) ==
    IF i > Len(values) THEN [ret |-> results, exc |-> "none"]
    ELSE IF values[i] = Nil THEN [ret |-> <<>>, exc |-> "DataError"]
    ELSE IF ~ConvertOk(RedisHgetall(db, values[i])) THEN [ret |-> <<>>, exc |-> "KeyError"]
    ELSE GetByUidsFrom(db, values, i + 1,
                       Append(results, ConvertFrom(RedisHgetall(db, values[i]))))

GetByUids(db, uids) ==
    IF uids = <<>> THEN [ret |-> <<>>, exc |-> "ResponseError"]
    ELSE GetByUidsFrom(db, RedisMget(db, uids), 1, <<>>)

\* The keyword arguments RedisEmployee.create hands to redis.set.
CreateKwargs(ids, attrs) ==
    [f \in Fields |-> IF f = "username" THEN ids[f] ELSE attrs[f]]

\* RedisEmployee.create(diffsync, ids, attrs): redis.set, then the instance.
Create(db, ids, attrs) == RedisSet(db, CreateKwargs(ids, attrs))

\* RedisEmployee.update(attrs): the key is read from the payload.
Update(db, obj, attrs) ==
    IF "username" \notin DOMAIN attrs THEN [db |-> db, exc |-> "KeyError"]
    ELSE [db |-> RedisHset(db, attrs["username"], attrs), exc |-> "none"]

\* RedisEmployee.delete(): redis.delete(self.username), whatever it removed.
Delete(db, obj) == [db |-> RedisDelete(db, obj["username"]), exc |-> "none"]

----------------------------------------------------------------------------
(* redis_adapter.py: RedisAdapter *)

\* A load that clears the server first, as populate_redis does.
RedisAdapterLoadFlushing(db, log) == [db |-> EmptyMap, log |-> log \cup {"FLUSHALL"}]

\* RedisAdapter.load(): creates the client and touches nothing.
RedisAdapterLoad(db, log) == [db |-> db, log |-> log]

\* RedisAdapter.add(obj): pass.
RedisAdapterAdd(db, obj) == [db |-> db, exc |-> "none"]

\* RedisAdapter.remove(obj): pass.
RedisAdapterRemove(db, obj) == [db |-> db, exc |-> "none"]

----------------------------------------------------------------------------
(* The Diff Engine (section 4.2 of the specification): source S, target T,  *)
(* both uid -> Employee.                                                   *)

ChangedAttrs(s, t) == {a \in Range(Attributes) : s[a] # t[a]}

Diff(S, T) ==
    [creates |-> [k \in DOMAIN S \ DOMAIN T |-> Attrs(S[k])],
     updates |-> [k \in {u \in DOMAIN S \cap DOMAIN T : ChangedAttrs(S[u], T[u]) # {}} |->
                    [a \in ChangedAttrs(S[k], T[k]) |-> <<T[k][a], S[k][a]>>]],
     deletes |-> DOMAIN T \ DOMAIN S]

\* The attribute patch an update entry carries: the new values.
Patch(entry) == [a \in DOMAIN entry |-> entry[a][2]]

----------------------------------------------------------------------------
(* Inputs *)

\* One Faker profile.
Profile(username, company) ==
    [job |-> "Engineer", company |-> company, ssn |-> "123-45-6789",
     residence |-> "1 Main St", username |-> username, name |-> "A. Person",
     mail |-> "a@example.org"]

\* A source record without its identifier field.
NoUsername(rec) == [f \in DOMAIN rec \ {"username"} |-> rec[f]]

WellFormed == {Profile("alice", "OldCo"), Profile("alice", "NewCo"), Profile("bob", "OldCo")}
Malformed == {NoUsername(Profile("carol", "OldCo"))}

SeqsUpTo(S, n) == UNION {[1..k -> S] : k \in 0..n}

\* Short lists, hand-edited files included.
ShortFiles == SeqsUpTo(WellFormed \cup Malformed, MaxRecords)
\* What generate_data can return: every record has every field.
ShortData == SeqsUpTo(WellFormed, MaxRecords)
\* Long lists of records whose usernames may end in a digit.
LongData == [1..LongLen -> {Profile("x", "OldCo"), Profile("x1", "OldCo")}]

NoCall == [op |-> "none"]
NoDelta == [creates |-> EmptyMap, updates |-> EmptyMap, deletes |-> {}]

----------------------------------------------------------------------------
(* SpecLoad: one adapter, loaded from the local file; one Redis server,    *)
(* populated by build.py --redis.                                          *)

InitLoad ==
    /\ pc = "start"
    /\ argv = {}
    /\ \/ localFile \in ShortFiles \cup LongData /\ faker = <<>>
       \/ localFile = <<>> /\ faker \in ShortData \cup LongData
    /\ redisDb = EmptyMap
    /\ redisLog = {}
    /\ hooks = {}
    /\ local = EmptyMap
    /\ remote = EmptyMap
    /\ delta = NoDelta
    /\ outcome = EmptyMap
    /\ phases = {}
    /\ call = NoCall

\* local.load(fetch_local_data())
LoadLocal ==
    /\ pc \in {"start", "loaded"}
    /\ LET r == Load(local, localFile)
       IN  /\ local' = r.index
           /\ call' = [op |-> "load", input |-> localFile, exc |-> r.exc, prior |-> local]
    /\ pc' = "loaded"
    /\ UNCHANGED <<argv, localFile, faker, redisDb, redisLog, hooks, remote, delta, outcome, phases>>

\* python build.py --redis
PopulateRedis ==
    /\ pc \in {"start", "populated"}
    /\ redisDb' = PopulateRedisDb(faker)
    /\ redisLog' = redisLog \cup {"FLUSHALL"} \cup (IF faker = <<>> THEN {} ELSE {"HSET"})
    /\ call' = [op |-> "populate_redis", input |-> faker, exc |-> "none", prior |-> redisDb]
    /\ pc' = "populated"
    /\ UNCHANGED <<argv, localFile, faker, hooks, local, remote, delta, outcome, phases>>

NextLoad == LoadLocal \/ PopulateRedis

SpecLoad == InitLoad /\ [][NextLoad]_vars

----------------------------------------------------------------------------
(* C4: a load that meets a record without a username fails and leaves the  *)
(* adapter's index exactly as it was before the call.                      *)
HasMalformed(employees) ==
    \E i \in 1..Len(employees) : "username" \notin DOMAIN employees[i]

C4_LoadAllOrNothing ==
    (call.op = "load" /\ HasMalformed(call.input))
        => (call.exc # "none" /\ local = call.prior)

(* C5: the keys load derives, and the keys populate_redis writes, are      *)
(* pairwise distinct: one index entry (one Redis key) per source record.   *)
C5_KeysUnique ==
    /\ (call.op = "load" /\ ~HasMalformed(call.input) /\ call.prior = EmptyMap)
        => (call.exc = "none" /\ Cardinality(DOMAIN local) = Len(call.input))
    /\ call.op = "populate_redis"
        => Cardinality(DOMAIN redisDb) = Len(call.input)

----------------------------------------------------------------------------
(* SpecMain: the run task of tasks.py and the command line of main.py,     *)
(* then main() phase by phase.                                             *)

InitMain ==
    /\ pc = "shell"
    /\ argv = {}
    /\ localFile \in ShortFiles
    /\ faker = <<>>
    /\ redisDb \in {PopulateRedisDb(d) : d \in ShortData}
    /\ redisLog = {}
    /\ hooks = {}
    /\ local = EmptyMap
    /\ remote = EmptyMap
    /\ delta = NoDelta
    /\ outcome = EmptyMap
    /\ phases = {}
    /\ call = NoCall

\* tasks.run(context, diff, sync): the command it builds.
RunCommand(diff, sync) == IF diff THEN {"--diff"} ELSE IF sync THEN {"--sync"} ELSE {}

\* invoke run [--no-diff] [--sync]
RunTask(diff, sync) ==
    /\ pc = "shell"
    /\ argv' = RunCommand(diff, sync)
    /\ call' = [op |-> "run", diff |-> diff, sync |-> sync]
    /\ pc' = "parse"
    /\ UNCHANGED <<localFile, faker, redisDb, redisLog, hooks, local, remote, delta,
                   outcome, phases>>

\* python main.py [--redis] [-v]
RunMain(flags) ==
    /\ pc = "shell"
    /\ argv' = flags
    /\ call' = [op |-> "main", diff |-> FALSE, sync |-> FALSE]
    /\ pc' = "parse"
    /\ UNCHANGED <<localFile, faker, redisDb, redisLog, hooks, local, remote, delta,
                   outcome, phases>>

\* The options main.py's ArgumentParser declares.
MainOptions == {"--verbosity", "-v", "--redis"}

\* parser.parse_args(): an undeclared option ends the process with status 2.
ParseArgs ==
    /\ pc = "parse"
    /\ pc' = IF argv \subseteq MainOptions THEN "load_local" ELSE "exit2"
    /\ UNCHANGED <<argv, localFile, faker, redisDb, redisLog, hooks, local, remote,
                   delta, outcome, phases, call>>

\* employees = fetch_local_data(); local = LocalAdapter(); local.load(employees)
MainLoadLocal ==
    /\ pc = "load_local"
    /\ LET r == Load(EmptyMap, localFile)
       IN  /\ local' = r.index
           /\ pc' = IF r.exc = "none" THEN "load_remote" ELSE "raised"
           /\ phases' = IF r.exc = "none" THEN phases \cup {"load_local"} ELSE phases
    /\ UNCHANGED <<argv, localFile, faker, redisDb, redisLog, hooks, remote, delta,
                   outcome, call>>

\* A remote adapter that is created and never loaded.
LoadRemoteSkipped(employees) == [index |-> EmptyMap, exc |-> "none"]

\* remote = LocalAdapter(); remote.load(employees)
LoadRemoteLocal(employees) == Load(EmptyMap, employees)

\* The remote side: RedisAdapter().load() with --redis, a second LocalAdapter
\* loaded from the same employees without.
MainLoadRemote ==
    /\ pc = "load_remote"
    /\ IF "--redis" \in argv
       THEN LET r == RedisAdapterLoad(redisDb, redisLog)
            IN  /\ redisDb' = r.db
                /\ redisLog' = r.log
                /\ remote' = EmptyMap
                /\ pc' = "diff"
                /\ phases' = phases \cup {"load_remote"}
       ELSE LET r == LoadRemoteLocal(localFile)
            IN  /\ remote' = r.index
                /\ pc' = IF r.exc = "none" THEN "diff" ELSE "raised"
                /\ phases' = IF r.exc = "none" THEN phases \cup {"load_remote"} ELSE phases
                /\ UNCHANGED <<redisDb, redisLog>>
    /\ UNCHANGED <<argv, localFile, faker, hooks, local, delta, outcome, call>>

\* diff = remote.diff_from(local): the source is local, the target is remote;
\* the Redis-backed remote is read through get_all.
MainDiff ==
    /\ pc = "diff"
    /\ IF "--redis" \in argv
       THEN LET t == RedisGetAll(redisDb)
            IN  /\ redisLog' = redisLog \cup GetAllCommands(redisDb)
                /\ delta' = IF t.exc = "none" THEN Diff(local, t.index) ELSE delta
                /\ pc' = IF t.exc = "none" THEN "summary" ELSE "raised"
                /\ phases' = IF t.exc = "none" THEN phases \cup {"diff"} ELSE phases
       ELSE /\ delta' = Diff(local, remote)
            /\ pc' = "summary"
            /\ phases' = phases \cup {"diff"}
            /\ UNCHANGED redisLog
    /\ UNCHANGED <<argv, localFile, faker, redisDb, hooks, local, remote, outcome, call>>

\* print(diff.summary()); main returns.
MainSummary ==
    /\ pc = "summary"
    /\ pc' = "exit0"
    /\ phases' = phases \cup {"summary"}
    /\ UNCHANGED <<argv, localFile, faker, redisDb, redisLog, hooks, local, remote,
                   delta, outcome, call>>

NextMain ==
    \/ \E diff \in BOOLEAN, sync \in BOOLEAN : RunTask(diff, sync)
    \/ \E flags \in SUBSET {"--redis", "-v"} : RunMain(flags)
    \/ ParseArgs
    \/ MainLoadLocal
    \/ MainLoadRemote
    \/ MainDiff
    \/ MainSummary

SpecMain == InitMain /\ [][NextMain]_vars

Terminated == pc \in {"exit0", "exit2", "raised"}

(* C2: without the Redis option both adapters are loaded from the same     *)
(* employee list, and once both loads succeeded the diff of the remote     *)
(* adapter from the local adapter has no create, no update and no delete.  *)
C2_NoOpStability ==
    ("--redis" \notin argv /\ "diff" \in phases) => delta = NoDelta

C2_Witness ==
    /\ "--redis" \notin argv
    /\ pc = "exit0"
    /\ Cardinality(DOMAIN local) = MaxRecords
    /\ delta = NoDelta

(* C3: across the whole main sequence, in both variants, the backing store *)
(* and the local source never change, only KEYS and HGETALL are issued,    *)
(* and no create/update/delete hook is invoked.                            *)
C3_DiffMutatesNothing ==
    [][/\ redisDb' = redisDb
       /\ localFile' = localFile
       /\ redisLog' \subseteq {"KEYS", "HGETALL"}
       /\ hooks' = {}]_vars

C3_Witness ==
    /\ "--redis" \in argv
    /\ pc = "exit0"
    /\ redisDb # EmptyMap
    /\ "HGETALL" \in redisLog
    /\ delta # NoDelta

(* C9: the run task with sync requested starts main in a mode that runs    *)
(* the Sync Executor after the diff and prints the applied summary.        *)
C9_RunReachesSync ==
    (call.op = "run" /\ call.sync /\ Terminated)
        => (pc = "exit0" /\ {"diff", "sync", "summary"} \subseteq phases)

----------------------------------------------------------------------------
(* SpecSync: a Delta of the local adapter against the Redis-backed adapter *)
(* is applied to the Redis-backed adapter through the hooks of             *)
(* RedisEmployee and add/remove of RedisAdapter (the Sync Executor of      *)
(* section 4.3: creates, then updates, then deletes, a failed entry        *)
(* recorded and its siblings still attempted); then the adapters' lookup   *)
(* and add calls are made directly.                                        *)

InitSync ==
    /\ pc = "diff"
    /\ argv = {"--redis"}
    /\ localFile \in ShortData
    /\ faker = <<>>
    /\ redisDb \in {PopulateRedisDb(d) : d \in ShortData}
    /\ redisLog = {}
    /\ hooks = {}
    /\ local = Load(EmptyMap, localFile).index
    /\ remote = EmptyMap
    /\ delta = NoDelta
    /\ outcome = EmptyMap
    /\ phases = {}
    /\ call = NoCall

\* The Delta of the source (local) against the target (Redis), and the
\* target instances it refers to.
SyncDiff ==
    /\ pc = "diff"
    /\ LET t == RedisGetAll(redisDb)
       IN  /\ remote' = t.index
           /\ delta' = Diff(local, t.index)
    /\ redisLog' = redisLog \cup GetAllCommands(redisDb)
    /\ phases' = phases \cup {"diff"}
    /\ pc' = "apply"
    /\ UNCHANGED <<argv, localFile, faker, redisDb, hooks, local, outcome, call>>

Outcome(exc) == IF exc = "none" THEN "Applied" ELSE "Failed(" \o exc \o ")"

Attempted == DOMAIN outcome

\* One create entry: RedisEmployee.create, then RedisAdapter.add of the new
\* instance when create returned one.
ApplyCreate(k) ==
    /\ pc = "apply"
    /\ k \in DOMAIN delta.creates \ Attempted
    /\ LET ids == [username |-> k]
           c == Create(redisDb, ids, delta.creates[k])
           a == IF c.exc = "none"
                THEN RedisAdapterAdd(c.db, Employee(ids @@ delta.creates[k]))
                ELSE c
       IN  /\ redisDb' = a.db
           /\ redisLog' = IF c.exc = "none" THEN redisLog \cup {"SET"} ELSE redisLog
           /\ outcome' = outcome @@ (k :> Outcome(a.exc))
           /\ call' = [op |-> "create", uid |-> k, exc |-> a.exc, prior |-> redisDb]
    /\ hooks' = hooks \cup {"create"}
    /\ UNCHANGED <<pc, argv, localFile, faker, local, remote, delta, phases>>

\* One update entry: RedisEmployee.update on the target instance with the
\* changed attributes.
ApplyUpdate(k) ==
    /\ pc = "apply"
    /\ DOMAIN delta.creates \subseteq Attempted
    /\ k \in DOMAIN delta.updates \ Attempted
    /\ LET u == Update(redisDb, remote[k], Patch(delta.updates[k]))
       IN  /\ redisDb' = u.db
           /\ redisLog' = IF u.exc = "none" THEN redisLog \cup {"HSET"} ELSE redisLog
           /\ outcome' = outcome @@ (k :> Outcome(u.exc))
           /\ call' = [op |-> "update", uid |-> k, attrs |-> Patch(delta.updates[k]),
                       exc |-> u.exc, prior |-> redisDb]
    /\ hooks' = hooks \cup {"update"}
    /\ UNCHANGED <<pc, argv, localFile, faker, local, remote, delta, phases>>

\* One delete entry: RedisEmployee.delete on the target instance, then
\* RedisAdapter.remove of it.
ApplyDelete(k) ==
    /\ pc = "apply"
    /\ DOMAIN delta.creates \cup DOMAIN delta.updates \subseteq Attempted
    /\ k \in delta.deletes \ Attempted
    /\ LET d == Delete(redisDb, remote[k])
           r == IF d.exc = "none" THEN RedisAdapterRemove(d.db, remote[k]) ELSE d
       IN  /\ redisDb' = r.db
           /\ outcome' = outcome @@ (k :> Outcome(r.exc))
           /\ call' = [op |-> "delete", uid |-> k, exc |-> r.exc, prior |-> redisDb]
    /\ redisLog' = redisLog \cup {"DEL"}
    /\ hooks' = hooks \cup {"delete"}
    /\ UNCHANGED <<pc, argv, localFile, faker, local, remote, delta, phases>>

\* Another client removes a record the Delta is about to delete.
Drift(k) ==
    /\ pc = "apply"
    /\ k \in delta.deletes \ Attempted
    /\ Encode(k) \in DOMAIN redisDb
    /\ redisDb' = RedisDelete(redisDb, k)
    /\ call' = [op |-> "drift", uid |-> k, exc |-> "none", prior |-> redisDb]
    /\ UNCHANGED <<pc, argv, localFile, faker, redisLog, hooks, local, remote, delta,
                   outcome, phases>>

\* Every entry of the Delta was attempted.
SyncDone ==
    /\ pc = "apply"
    /\ DOMAIN delta.creates \cup DOMAIN delta.updates \cup delta.deletes \subseteq Attempted
    /\ pc' = "synced"
    /\ phases' = phases \cup {"sync"}
    /\ UNCHANGED <<argv, localFile, faker, redisDb, redisLog, hooks, local, remote,
                   delta, outcome, call>>

\* The records of the Redis-backed adapter, as a diff reads them.
Target == RedisGetAll(redisDb).index

\* The instances the direct calls are made with.
SampleObjects ==
    {Employee(LoadKwargs(p, i)) : p \in WellFormed, i \in 0..(MaxRecords - 1)}
SampleUids == {UniqueId(o) : o \in SampleObjects}

\* local.add(obj)
AddLocal(obj) ==
    /\ pc \in {"diff", "synced"}
    /\ LET a == StoreAdd(local, obj)
       IN  /\ local' = a.index
           /\ call' = [op |-> "add", adapter |-> "Local", uid |-> UniqueId(obj),
                       present |-> UniqueId(obj) \in DOMAIN local,
                       changed |-> a.index # local, exc |-> a.exc]
    /\ pc' = "called"
    /\ UNCHANGED <<argv, localFile, faker, redisDb, redisLog, hooks, remote, delta,
                   outcome, phases>>

\* RedisAdapter().add(obj)
AddRedis(obj) ==
    /\ pc \in {"diff", "synced"}
    /\ LET a == RedisAdapterAdd(redisDb, obj)
       IN  /\ redisDb' = a.db
           /\ call' = [op |-> "add", adapter |-> "Redis", uid |-> UniqueId(obj),
                       present |-> Encode(UniqueId(obj)) \in DOMAIN redisDb,
                       changed |-> a.db # redisDb, exc |-> a.exc]
    /\ pc' = "called"
    /\ UNCHANGED <<argv, localFile, faker, redisLog, hooks, local, remote, delta,
                   outcome, phases>>

\* RedisAdapter().get_by_uids(uids, "employee")
GetByUidsCall(uids) ==
    /\ pc \in {"diff", "synced"}
    /\ LET g == GetByUids(redisDb, uids)
       IN  call' = [op |-> "get_by_uids", uids |-> uids, ret |-> g.ret, exc |-> g.exc]
    /\ redisLog' = redisLog \cup {"MGET"}
    /\ pc' = "called"
    /\ UNCHANGED <<argv, localFile, faker, redisDb, hooks, local, remote, delta,
                   outcome, phases>>

\* Update payloads: changed attributes only, and one that repeats the key.
SamplePatches(k) ==
    {[company |-> "NextCo"], [company |-> "NextCo", job |-> "Manager"],
     [username |-> k, company |-> "NextCo"]}

\* RedisAdapter().get_all("employee")[i].update(attrs)
UpdateCall(k, attrs) ==
    /\ pc \in {"diff", "synced"}
    /\ k \in DOMAIN Target
    /\ LET u == Update(redisDb, Target[k], attrs)
       IN  /\ redisDb' = u.db
           /\ redisLog' = IF u.exc = "none" THEN redisLog \cup {"HSET"} ELSE redisLog
           /\ call' = [op |-> "update", uid |-> k, attrs |-> attrs, exc |-> u.exc,
                       prior |-> redisDb]
    /\ hooks' = hooks \cup {"update"}
    /\ pc' = "called"
    /\ UNCHANGED <<argv, localFile, faker, local, remote, delta, outcome, phases>>

\* obj.delete(), then RedisAdapter().remove(obj), for an instance obj
DeleteCall(obj) ==
    /\ pc \in {"diff", "synced"}
    /\ LET d == Delete(redisDb, obj)
           r == IF d.exc = "none" THEN RedisAdapterRemove(d.db, obj) ELSE d
       IN  /\ redisDb' = r.db
           /\ call' = [op |-> "delete", uid |-> UniqueId(obj), exc |-> r.exc,
                       prior |-> redisDb]
    /\ redisLog' = redisLog \cup {"DEL"}
    /\ hooks' = hooks \cup {"delete"}
    /\ pc' = "called"
    /\ UNCHANGED <<argv, localFile, faker, local, remote, delta, outcome, phases>>

NextSync ==
    \/ SyncDiff
    \/ \E k \in SampleUids : ApplyCreate(k)
    \/ \E k \in SampleUids : ApplyUpdate(k)
    \/ \E k \in SampleUids : ApplyDelete(k)
    \/ \E k \in SampleUids : Drift(k)
    \/ SyncDone
    \/ \E obj \in SampleObjects : AddLocal(obj)
    \/ \E obj \in SampleObjects : AddRedis(obj)
    \/ \E uids \in SeqsUpTo(SampleUids, MaxRecords) : GetByUidsCall(uids)
    \/ \E k \in SampleUids : \E attrs \in SamplePatches(k) : UpdateCall(k, attrs)
    \/ \E obj \in SampleObjects : DeleteCall(obj)

SpecSync == InitSync /\ [][NextSync]_vars

C6_DeleteAbsentFails ==
    (call.op = "delete" /\ Encode(call.uid) \notin DOMAIN call.prior)
        => /\ call.exc = "ObjectNotFound"
           /\ call.uid \in Attempted => outcome[call.uid] = "Failed(ObjectNotFound)"

(* C7: add of a record whose identifier key is already present fails with  *)
(* AlreadyExists and leaves the adapter's contents unchanged, on the       *)
(* in-memory and on the Redis-backed adapter alike.                        *)
C7_AddRejectsDuplicate ==
    (call.op = "add" /\ call.present)
        => (call.exc = "ObjectAlreadyExists" /\ ~call.changed)

(* C8: get_by_uids on a non-empty list returns exactly the stored records  *)
(* when every requested identifier is present, and fails with NotFound     *)
(* when one is absent.                                                     *)
C8_BatchedLookup ==
    (call.op = "get_by_uids" /\ call.uids # <<>>) =>
        IF \A i \in 1..Len(call.uids) : Encode(call.uids[i]) \in DOMAIN redisDb
        THEN /\ call.exc = "none"
             /\ call.ret = [i \in 1..Len(call.uids) |-> Target[call.uids[i]]]
        ELSE call.exc = "ObjectNotFound"

(* C10: update of an existing record with a payload of changed attributes  *)
(* only succeeds, writes them to the hash under the record's own key and   *)
(* leaves the key set unchanged.                                           *)
C10_UpdatePatches ==
    (call.op = "update" /\ "username" \notin DOMAIN call.attrs) =>
        /\ call.exc = "none"
        /\ DOMAIN redisDb = DOMAIN call.prior
        /\ \A a \in DOMAIN call.attrs :
              Decode(RedisHgetall(redisDb, Encode(call.uid))[Encode(a)]) = call.attrs[a]

====
